---- MODULE Spec2Model ----
(***************************************************************************)
(* A model of the InstancedMeshPool component                              *)
(* (src/src/components/InstanceMeshPool.tsx, lines 1-300): the batch       *)
(* array kept in meshGroups, the index routing through batchSizeRef, the   *)
(* two dirty sets, the imperative handle and the per-frame flush.          *)
(*                                                                         *)
(* A transform is modelled by its translation <<x, y, z>>; a colour by     *)
(* <<r, g, b>>.  Reading a typed array beyond its length yields undefined, *)
(* modelled by the empty tuple; writing beyond its length is dropped.      *)
(***************************************************************************)
EXTENDS Integers, Sequences, FiniteSets, TLC

\* ------------------------------------------------------------------ bounds
MaxInstancesBound == 2
MaxBatchSize == 2
NumMatrices == 2
NumColors == 1
MaxListLen == 2
MaxOps == 3
MaxRoutedIndex == 9
MaxRoutedBatchSize == 4
MaxConfigs == 3
MaxPoints == 2
MaxFetches == 2
MaxUpdates == 2
MaxPathLen == 2
MaxPathCalls == 3

\* ------------------------------------------------------- program constants
FarDistance == 10000
Undefined == 0
Coords == 1..2

\* ------------------------------------------------------------------ inputs
BatchSizes == 1..MaxBatchSize
InstanceLimits == 0..MaxInstancesBound
Indices == (0 - 1)..MaxInstancesBound
Matrices == {<<0, m, 0>> : m \in 1..NumMatrices}
Colors == {<<c, 0, 0>> : c \in 1..NumColors}
Identity == <<0, 0, 0>>
UndefinedValue == <<>>
Black == <<0, 0, 0>>
NoColor == <<>>

\* the lists handed to the bulk writes: element i is the i-th value, cyclically
MatrixLists == {[i \in 1..n |-> <<0, ((i - 1) % NumMatrices) + 1, 0>>] : n \in 0..MaxListLen}
ColorLists == {[i \in 1..n |-> <<((i - 1) % NumColors) + 1, 0, 0>>] : n \in 0..MaxListLen}

Min(a, b) == IF a < b THEN a ELSE b
Max(a, b) == IF a > b THEN a ELSE b

VARIABLES
    maxInstances,         \* prop of the last render
    batchSize,            \* prop of the last render
    enableColors,         \* prop of the last render
    frustumCulled,        \* prop of the last render
    hasHandler,           \* onClick || onPointerOver || onPointerOut of the last render
    enableColorsHistory,  \* enableColors at the mount, and whether a render ever had it true
    meshGroups,           \* meshGroups.current: the batches, batch b at position b + 1
    batchSizeRef,         \* batchSizeRef.current
    currentInstanceCount, \* currentInstanceCount.current
    dirtyMatrixBatches,   \* dirtyMatrixBatches.current
    dirtyColorBatches,    \* dirtyColorBatches.current
    lastOp,               \* the last operation, its arguments and the pool before it
    result,               \* the value returned by the last getMatrixAt / getColorAt
    matrixNeedsUpdate,    \* batches whose instanceMatrix.needsUpdate the last operation set
    colorNeedsUpdate,     \* batches whose instanceColor.needsUpdate the last operation set
    boundsComputed,       \* batches whose bounding volumes the last operation computed
    opCount               \* number of operations so far

\* GSAPAnimator (utils/gsapAnimator.ts): one animator and its event loop
VARIABLES
    animationQueue,       \* this.animationQueue: the configs waiting, oldest first
    isAnimating,          \* this.isAnimating
    isDestroyed,          \* this.isDestroyed
    continuousMode,       \* this.continuousMode
    fetchPointsCallback,  \* this.fetchPointsCallback is not null
    continuousInterval,   \* this.continuousInterval: a timer handle, 0 for null
    tweens,               \* this.tweens: the configs whose tween is running
    currentTimeline,      \* this.currentTimeline: the id of the config it wraps, 0 for null
    pendingThens,         \* resolved executeAnimation promises whose .then has not run yet
    pendingTimers,        \* handles of the setTimeout calls that have neither fired nor been cleared
    fetchesInFlight,      \* calls of fetchPointsCallback whose promise is not settled
    promises,             \* ids of the animate() calls: returned, promise resolved, onComplete run
    started,              \* ids of the configs handed to executeAnimation, in that order
    killed,               \* kill() or destroy() has been called
    nextId,               \* id of the next config to be created
    fetchCalls,           \* calls of fetchPointsCallback so far
    timelines,            \* this.timelines: the ids of the animateSequence timelines tracked
    ticking,              \* ids of the tweens and timelines that gsap's ticker still renders
    object3D,             \* this.object3D: whose onUpdate wrote it last, and how many writes
    interrupted,          \* ids of the animations that were running when kill() or destroy() ran
    errorsLogged,         \* calls of console.error('Failed to fetch animation points:', error)
    \* moveAlongPath (utils/moveAlongPath.ts)
    pathObject,           \* the object moved along paths: [position, rotation]
    pathTweens,           \* the gsap tweens of moveAlongPath calls that are alive
    currentTween,         \* PathAnimator.currentTween: a tween id, 0 for null
    debugLine,            \* PathAnimator.debugLine: the id of its line, 0 for null
    sceneLines,           \* debug lines that are in debugScene
    pathIsDestroyed,      \* PathAnimator.isDestroyed
    pathResolved,         \* calls whose promise has resolved
    pathCallLog           \* the moveAlongPath calls made so far, in order

animatorFields == <<animationQueue, isAnimating, isDestroyed, tweens, currentTimeline>>
continuousFields == <<continuousMode, fetchPointsCallback, continuousInterval>>
eventLoop == <<pendingThens, pendingTimers, fetchesInFlight>>
animatorObserved == <<promises, started, killed, nextId, fetchCalls>>
gsapFields == <<timelines, object3D, interrupted>>
animatorVars == <<animatorFields, continuousFields, eventLoop, animatorObserved, gsapFields,
                  ticking, errorsLogged>>

props == <<maxInstances, batchSize, enableColors, frustumCulled, hasHandler, enableColorsHistory>>
refs == <<meshGroups, batchSizeRef, currentInstanceCount, dirtyMatrixBatches, dirtyColorBatches>>
observed == <<lastOp, result, matrixNeedsUpdate, colorNeedsUpdate, boundsComputed, opCount>>
poolVars == <<props, refs, observed>>
pathVars == <<pathObject, pathTweens, currentTween, debugLine, sceneLines, pathIsDestroyed,
              pathResolved, pathCallLog>>

vars == <<poolVars, animatorVars, pathVars>>

\* the record of an operation: its name, its index (or count) argument, its list
\* of values, and what the pool was when it was called
Op(name, index, values) ==
    [op |-> name, index |-> index, values |-> values,
     before |-> [op |-> lastOp.op,
                 maxInstances |-> maxInstances,
                 batchSize |-> batchSize,
                 batches |-> Len(meshGroups),
                 dirtyMatrix |-> dirtyMatrixBatches,
                 dirtyColor |-> dirtyColorBatches]]

FlushOps == {"updateMatrices", "updateColors", "useFrame"}
MatrixWrites == {"setMatrixAt", "setMatrices"}
ColorWrites == {"setColorAt", "setColors"}

\* --------------------------------------------------------------- one batch
\* a parking transform that leaves out FarDistance
ParkedNear(i) == <<0, i, 0>>

\* tempMatrix.makeTranslation(0, FarDistance + i, 0)
Parked(i) == <<0, FarDistance + i, 0>>

\* new THREE.InstancedMesh(geometry, material, batchSize) and its initialisation
NewMesh(bs, colors) ==
    [capacity |-> bs,
     instanceMatrix |-> [i \in 1..bs |-> Parked(i - 1)],
     instanceColor |-> IF colors THEN [i \in 1..bs |-> Black] ELSE NoColor,
     count |-> 0,
     boundingBox |-> "null"]

\* mesh.setMatrixAt(instanceIndex, matrix): a write into the Float32Array
MeshSetMatrixAt(mesh, o, m) ==
    IF o \in 0..(mesh.capacity - 1)
    THEN [mesh EXCEPT !.instanceMatrix[o + 1] = m]
    ELSE mesh

\* mesh.getMatrixAt(instanceIndex, matrix): a read of the Float32Array
MeshGetMatrixAt(mesh, o) ==
    IF o \in 0..(mesh.capacity - 1) THEN mesh.instanceMatrix[o + 1] ELSE UndefinedValue

\* mesh.setColorAt(instanceIndex, color), instanceColor being present
MeshSetColorAt(mesh, o, c) ==
    IF o \in 0..(mesh.capacity - 1)
    THEN [mesh EXCEPT !.instanceColor[o + 1] = c]
    ELSE mesh

\* mesh.getColorAt(instanceIndex, color), instanceColor being present
MeshGetColorAt(mesh, o) ==
    IF o \in 0..(mesh.capacity - 1) THEN mesh.instanceColor[o + 1] ELSE UndefinedValue

\* mesh.boundingBox = null; ...; mesh.computeBoundingBox(); mesh.computeBoundingSphere()
ComputeBounds(mesh) == [mesh EXCEPT !.boundingBox = "computed"]

\* ----------------------------------------------------------- index routing
\* a routing that sends a negative index to the first batch
GroupIndexClamped(index) == IF index < 0 THEN 0 ELSE index \div batchSizeRef

\* Math.floor(index / bs)
GroupIndexFor(index, bs) == index \div bs

\* Math.floor(index / batchSizeRef.current)
GroupIndex(index) == GroupIndexFor(index, batchSizeRef)

\* a routing that uses the logical index as the offset within the batch
InstanceIndexRaw(index) == index

\* index % bs (the remainder takes the sign of the dividend)
InstanceIndexFor(index, bs) ==
    IF index >= 0 THEN index % bs ELSE 0 - ((0 - index) % bs)

\* index % batchSizeRef.current
InstanceIndex(index) == InstanceIndexFor(index, batchSizeRef)

\* meshGroups.current[groupIndex] is defined
HasMesh(groups, g) == g \in 0..(Len(groups) - 1)

\* mesh?.instanceColor is truthy
HasColorMesh(groups, g) == HasMesh(groups, g) /\ groups[g + 1].instanceColor # NoColor

AllBatches == 0..(Len(meshGroups) - 1)

\* const offset = groupIndex * batchSize, of the render that built the handlers
OffsetFor(groupIndex, bs) == groupIndex * bs

\* a handler that reports the instanceId alone
HandlerIndexWithoutOffset(groupIndex, instanceId) == instanceId

\* const index = offset + e.instanceId: what a handler of batch groupIndex reports
HandlerIndex(groupIndex, instanceId) == OffsetFor(groupIndex, batchSize) + instanceId

\* ------------------------------------------------------------------ render
\* Math.ceil(maxInstances / batchSize)
NeededGroups(mi, bs) == (mi + bs - 1) \div bs

\* a growth that rebuilds every batch instead of appending the missing ones
GrowRebuilding(groups, needed, bs, colors) ==
    IF Len(groups) < needed
    THEN [g \in 1..needed |-> NewMesh(bs, colors)]
    ELSE groups

\* while (meshGroups.current.length < neededGroups) { ... push(mesh) }
RECURSIVE Grow(_, _, _, _)
Grow(groups, needed, bs, colors) ==
    IF Len(groups) < needed
    THEN Grow(Append(groups, NewMesh(bs, colors)), needed, bs, colors)
    ELSE groups

\* a shrink that releases the leading batches instead of the trailing ones
ShrinkFromFront(groups, needed) ==
    IF Len(groups) > needed
    THEN SubSeq(groups, Len(groups) - needed + 1, Len(groups))
    ELSE groups

\* a render without the loop that releases the surplus batches
NoShrink(groups, needed) == groups

\* while (meshGroups.current.length > neededGroups) { pop() }
RECURSIVE Shrink(_, _)
Shrink(groups, needed) ==
    IF Len(groups) > needed
    THEN Shrink(SubSeq(groups, 1, Len(groups) - 1), needed)
    ELSE groups

\* a render that also gives every retained batch the colour buffer, or the lack
\* of one, that the current enableColors asks for
RenderedRecoloring(groups, mi, bs, colors) ==
    LET kept == Shrink(Grow(groups, NeededGroups(mi, bs), bs, colors), NeededGroups(mi, bs))
    IN  [g \in 1..Len(kept) |->
            [kept[g] EXCEPT !.instanceColor =
                 IF ~colors THEN NoColor
                 ELSE IF @ = NoColor THEN [i \in 1..kept[g].capacity |-> Black]
                 ELSE @]]

\* the body of the component function: lines 204-239
Rendered(groups, mi, bs, colors) ==
    Shrink(Grow(groups, NeededGroups(mi, bs), bs, colors), NeededGroups(mi, bs))

Init ==
    /\ maxInstances \in InstanceLimits
    /\ batchSize \in BatchSizes
    /\ enableColors \in BOOLEAN
    /\ frustumCulled \in BOOLEAN
    /\ hasHandler \in BOOLEAN
    /\ meshGroups = Rendered(<<>>, maxInstances, batchSize, enableColors)
    /\ batchSizeRef = batchSize
    /\ currentInstanceCount = 0
    /\ dirtyMatrixBatches = {}
    /\ dirtyColorBatches = {}
    /\ enableColorsHistory = [constructed |-> enableColors, ever |-> enableColors]
    /\ lastOp = [op |-> "render", index |-> 0, values |-> <<>>,
                 before |-> [op |-> "mount", maxInstances |-> 0, batchSize |-> batchSize,
                             batches |-> 0, dirtyMatrix |-> {}, dirtyColor |-> {}]]
    /\ result = UndefinedValue
    /\ matrixNeedsUpdate = 0..(Len(meshGroups) - 1)
    /\ colorNeedsUpdate = {}
    /\ boundsComputed = {}
    /\ opCount = 0
    \* new GSAPAnimator(object3D)
    /\ animationQueue = <<>>
    /\ isAnimating = FALSE
    /\ isDestroyed = FALSE
    /\ continuousMode = FALSE
    /\ fetchPointsCallback = FALSE
    /\ continuousInterval = 0
    /\ tweens = {}
    /\ currentTimeline = 0
    /\ pendingThens = 0
    /\ pendingTimers = {}
    /\ fetchesInFlight = 0
    /\ promises = [returned |-> {}, resolved |-> {}, onComplete |-> {}]
    /\ started = <<>>
    /\ killed = FALSE
    /\ nextId = 1
    /\ fetchCalls = 0
    /\ timelines = {}
    /\ ticking = {}
    /\ object3D = [position |-> 0, writes |-> 0]
    /\ interrupted = {}
    /\ errorsLogged = 0
    \* the object and new PathAnimator(object3D)
    /\ pathObject = [position |-> 1, rotation |-> 0]
    /\ pathTweens = {}
    /\ currentTween = 0
    /\ debugLine = 0
    /\ sceneLines = {}
    /\ pathIsDestroyed = FALSE
    /\ pathResolved = {}
    /\ pathCallLog = <<>>

Render ==
    \E mi \in InstanceLimits, bs \in BatchSizes, ec \in BOOLEAN, fc \in BOOLEAN, hh \in BOOLEAN :
        /\ opCount < MaxOps
        \* a re-render changes the size props or the interaction props
        /\ \/ fc = frustumCulled /\ hh = hasHandler
           \/ mi = maxInstances /\ bs = batchSize /\ ec = enableColors
        /\ maxInstances' = mi
        /\ batchSize' = bs
        /\ enableColors' = ec
        /\ frustumCulled' = fc
        /\ hasHandler' = hh
        /\ enableColorsHistory' = [enableColorsHistory EXCEPT !.ever = @ \/ ec]
        /\ batchSizeRef' = bs
        /\ meshGroups' = Rendered(meshGroups, mi, bs, ec)
        /\ matrixNeedsUpdate' = (0..(Len(meshGroups') - 1)) \ AllBatches
        /\ colorNeedsUpdate' = {}
        /\ boundsComputed' = {}
        /\ lastOp' = Op("render", 0, <<>>)
        /\ opCount' = opCount + 1
        /\ UNCHANGED <<animatorVars, pathVars>>
        /\ UNCHANGED <<currentInstanceCount, dirtyMatrixBatches, dirtyColorBatches, result>>

\* ------------------------------------------------------------------- flush
\* shouldComputeBounds: !!(onClick || onPointerOver || onPointerOut || frustumCulled)
ShouldComputeBounds == hasHandler \/ frustumCulled

\* a flush that raises no instanceMatrix.needsUpdate
NoMatrixBatchesToUpload(groups, dirty) == {}

\* dirtyMatrixBatches.current.forEach: the batches whose mesh exists
MatrixBatchesToUpload(groups, dirty) == {b \in dirty : HasMesh(groups, b)}

\* a flush that recomputes the bounds of every batch once one batch is dirty
BoundsToComputeAll(groups, dirty) ==
    IF ShouldComputeBounds /\ MatrixBatchesToUpload(groups, dirty) # {}
    THEN 0..(Len(groups) - 1)
    ELSE {}

\* if (needsBoundsUpdate) { ... computeBoundingBox(); computeBoundingSphere() }
BoundsToCompute(groups, dirty) ==
    IF ShouldComputeBounds THEN MatrixBatchesToUpload(groups, dirty) ELSE {}

\* dirtyColorBatches.current.forEach: the batches with mesh?.instanceColor
ColorBatchesToUpload(groups, dirty) == {b \in dirty : HasColorMesh(groups, b)}

\* a flush that leaves the matrix dirty set as it is
KeptMatrixBatches(dirty) == dirty

\* dirtyMatrixBatches.current.clear()
ClearedMatrixBatches(dirty) == {}

\* a flush that leaves the colour dirty set as it is
KeptColorBatches(dirty) == dirty

\* dirtyColorBatches.current.clear()
ClearedColorBatches(dirty) == {}

\* processUpdatesAndClearDirtyBatches, called as `name`
ProcessUpdatesAndClearDirtyBatches(name) ==
    /\ matrixNeedsUpdate' = MatrixBatchesToUpload(meshGroups, dirtyMatrixBatches)
    /\ boundsComputed' = BoundsToCompute(meshGroups, dirtyMatrixBatches)
    /\ colorNeedsUpdate' = ColorBatchesToUpload(meshGroups, dirtyColorBatches)
    /\ meshGroups' = [g \in 1..Len(meshGroups) |->
                        IF (g - 1) \in boundsComputed'
                        THEN ComputeBounds(meshGroups[g])
                        ELSE meshGroups[g]]
    /\ dirtyMatrixBatches' = ClearedMatrixBatches(dirtyMatrixBatches)
    /\ dirtyColorBatches' = ClearedColorBatches(dirtyColorBatches)
    /\ lastOp' = Op(name, 0, <<>>)
    /\ UNCHANGED <<props, batchSizeRef, currentInstanceCount, result>>
    /\ UNCHANGED <<animatorVars, pathVars>>

updateMatrices ==
    /\ opCount < MaxOps
    /\ ProcessUpdatesAndClearDirtyBatches("updateMatrices")
    /\ opCount' = opCount + 1

updateColors ==
    /\ opCount < MaxOps
    /\ ProcessUpdatesAndClearDirtyBatches("updateColors")
    /\ opCount' = opCount + 1

useFrame ==
    /\ opCount < MaxOps
    /\ ProcessUpdatesAndClearDirtyBatches("useFrame")
    /\ opCount' = opCount + 1

\* the useFrame callback as the render loop runs it: every frame, for as long as
\* the component is mounted, whatever the caller has done
useFrameCallback ==
    /\ ProcessUpdatesAndClearDirtyBatches("useFrame")
    /\ UNCHANGED opCount

\* ------------------------------------------------------- imperative handle
\* what getMatrixAt(index, matrix) returns on the batches `groups`
GetMatrixAt(groups, index, matrix) ==
    IF HasMesh(groups, GroupIndex(index))
    THEN MeshGetMatrixAt(groups[GroupIndex(index) + 1], InstanceIndex(index))
    ELSE matrix

\* what getColorAt(index, color) returns on the batches `groups`
GetColorAt(groups, index, color) ==
    IF HasColorMesh(groups, GroupIndex(index))
    THEN MeshGetColorAt(groups[GroupIndex(index) + 1], InstanceIndex(index))
    ELSE color

\* the batches after setMatrixAt(index, matrix)
StoreMatrix(groups, index, matrix) ==
    IF HasMesh(groups, GroupIndex(index))
    THEN [groups EXCEPT ![GroupIndex(index) + 1] =
              MeshSetMatrixAt(@, InstanceIndex(index), matrix)]
    ELSE groups

\* a setColorAt guarded by the mesh alone, whose mesh creates a missing colour buffer
StoreColorCreating(groups, index, color) ==
    IF HasMesh(groups, GroupIndex(index))
    THEN LET mesh == groups[GroupIndex(index) + 1]
             buffered == IF mesh.instanceColor = NoColor
                         THEN [mesh EXCEPT !.instanceColor = [i \in 1..mesh.capacity |-> Black]]
                         ELSE mesh
         IN  [groups EXCEPT ![GroupIndex(index) + 1] =
                  MeshSetColorAt(buffered, InstanceIndex(index), color)]
    ELSE groups

\* the batches after setColorAt(index, color)
StoreColor(groups, index, color) ==
    IF HasColorMesh(groups, GroupIndex(index))
    THEN [groups EXCEPT ![GroupIndex(index) + 1] =
              MeshSetColorAt(@, InstanceIndex(index), color)]
    ELSE groups

\* a forEach that gives up at the first element whose batch is missing
RECURSIVE StoreMatricesUntilMiss(_, _, _, _)
StoreMatricesUntilMiss(groups, matrices, startIndex, i) ==
    IF i > Len(matrices) \/ ~HasMesh(groups, GroupIndex(startIndex + (i - 1))) THEN groups
    ELSE StoreMatricesUntilMiss(StoreMatrix(groups, startIndex + (i - 1), matrices[i]),
                                matrices, startIndex, i + 1)

\* matrices.forEach((matrix, i) => ...) from element i on
RECURSIVE StoreMatrices(_, _, _, _)
StoreMatrices(groups, matrices, startIndex, i) ==
    IF i > Len(matrices) THEN groups
    ELSE StoreMatrices(StoreMatrix(groups, startIndex + (i - 1), matrices[i]),
                       matrices, startIndex, i + 1)

\* colors.forEach((color, i) => ...) from element i on
RECURSIVE StoreColors(_, _, _, _)
StoreColors(groups, colors, startIndex, i) ==
    IF i > Len(colors) THEN groups
    ELSE StoreColors(StoreColor(groups, startIndex + (i - 1), colors[i]),
                     colors, startIndex, i + 1)

\* setMatrices marking every allocated batch as soon as one element is written
AffectedMatrixBatchesAll(groups, n, startIndex) ==
    IF \E i \in 0..(n - 1) : HasMesh(groups, GroupIndex(startIndex + i))
    THEN 0..(Len(groups) - 1)
    ELSE {}

\* affectedBatches of setMatrices: the group indices of the elements whose mesh exists
AffectedMatrixBatches(groups, n, startIndex) ==
    {g \in {GroupIndex(startIndex + i) : i \in 0..(n - 1)} : HasMesh(groups, g)}

\* setColors marking the batch after each written one as well
AffectedColorBatchesWide(groups, n, startIndex) ==
    {g \in 0..(Len(groups) - 1) :
        \E i \in 0..(n - 1) :
            /\ HasColorMesh(groups, GroupIndex(startIndex + i))
            /\ g \in {GroupIndex(startIndex + i), GroupIndex(startIndex + i) + 1}}

\* affectedBatches of setColors: the group indices whose mesh has an instanceColor
AffectedColorBatches(groups, n, startIndex) ==
    {g \in {GroupIndex(startIndex + i) : i \in 0..(n - 1)} : HasColorMesh(groups, g)}

\* the group count without the Math.max(0, ...) clamp
GroupCountUnclamped(count, offset, bs) == Min(count - offset, bs)

\* Math.max(0, Math.min(count - offset, bs)), bs being batchSizeRef.current
GroupCountFor(count, offset, bs) == Max(0, Min(count - offset, bs))

\* group.count as setInstanceCount computes it
GroupCount(count, offset) == GroupCountFor(count, offset, batchSizeRef)

\* the loop of setInstanceCount: offset advances by batchSizeRef.current per group
CountedGroups(groups, count) ==
    [g \in 1..Len(groups) |->
        [groups[g] EXCEPT !.count = GroupCount(count, (g - 1) * batchSizeRef)]]

NoSignal ==
    /\ matrixNeedsUpdate' = {}
    /\ colorNeedsUpdate' = {}
    /\ boundsComputed' = {}

getMatrixAt ==
    \E index \in Indices, matrix \in {Identity} :
        /\ opCount < MaxOps
        /\ result' = GetMatrixAt(meshGroups, index, matrix)
        /\ lastOp' = Op("getMatrixAt", index, <<matrix>>)
        /\ opCount' = opCount + 1
        /\ UNCHANGED <<animatorVars, pathVars>>
        /\ NoSignal
        /\ UNCHANGED <<props, refs>>

setMatrixAt ==
    \E index \in Indices, matrix \in Matrices :
        /\ opCount < MaxOps
        /\ meshGroups' = StoreMatrix(meshGroups, index, matrix)
        /\ dirtyMatrixBatches' =
               dirtyMatrixBatches \cup AffectedMatrixBatches(meshGroups, 1, index)
        /\ lastOp' = Op("setMatrixAt", index, <<matrix>>)
        /\ opCount' = opCount + 1
        /\ UNCHANGED <<animatorVars, pathVars>>
        /\ NoSignal
        /\ UNCHANGED <<props, batchSizeRef, currentInstanceCount, dirtyColorBatches, result>>

getColorAt ==
    \E index \in Indices, color \in {Black} :
        /\ opCount < MaxOps
        /\ result' = GetColorAt(meshGroups, index, color)
        /\ lastOp' = Op("getColorAt", index, <<color>>)
        /\ opCount' = opCount + 1
        /\ UNCHANGED <<animatorVars, pathVars>>
        /\ NoSignal
        /\ UNCHANGED <<props, refs>>

setColorAt ==
    \E index \in Indices, color \in Colors :
        /\ opCount < MaxOps
        /\ meshGroups' = StoreColor(meshGroups, index, color)
        /\ dirtyColorBatches' =
               dirtyColorBatches \cup AffectedColorBatches(meshGroups, 1, index)
        /\ lastOp' = Op("setColorAt", index, <<color>>)
        /\ opCount' = opCount + 1
        /\ UNCHANGED <<animatorVars, pathVars>>
        /\ NoSignal
        /\ UNCHANGED <<props, batchSizeRef, currentInstanceCount, dirtyMatrixBatches, result>>

setMatrices ==
    \E matrices \in MatrixLists, startIndex \in Indices :
        /\ opCount < MaxOps
        /\ meshGroups' = StoreMatrices(meshGroups, matrices, startIndex, 1)
        /\ dirtyMatrixBatches' =
               dirtyMatrixBatches \cup AffectedMatrixBatches(meshGroups, Len(matrices), startIndex)
        /\ lastOp' = Op("setMatrices", startIndex, matrices)
        /\ opCount' = opCount + 1
        /\ UNCHANGED <<animatorVars, pathVars>>
        /\ NoSignal
        /\ UNCHANGED <<props, batchSizeRef, currentInstanceCount, dirtyColorBatches, result>>

setColors ==
    \E colors \in ColorLists, startIndex \in Indices :
        /\ opCount < MaxOps
        /\ meshGroups' = StoreColors(meshGroups, colors, startIndex, 1)
        /\ dirtyColorBatches' =
               dirtyColorBatches \cup AffectedColorBatches(meshGroups, Len(colors), startIndex)
        /\ lastOp' = Op("setColors", startIndex, colors)
        /\ opCount' = opCount + 1
        /\ UNCHANGED <<animatorVars, pathVars>>
        /\ NoSignal
        /\ UNCHANGED <<props, batchSizeRef, currentInstanceCount, dirtyMatrixBatches, result>>

setInstanceCount ==
    \E count \in Indices :
        /\ opCount < MaxOps
        /\ currentInstanceCount' = count
        /\ meshGroups' = CountedGroups(meshGroups, count)
        /\ lastOp' = Op("setInstanceCount", count, <<>>)
        /\ opCount' = opCount + 1
        /\ UNCHANGED <<animatorVars, pathVars>>
        /\ NoSignal
        /\ UNCHANGED <<props, batchSizeRef, dirtyMatrixBatches, dirtyColorBatches, result>>

\* a computeBoundingBox that honours shouldComputeBounds and the dirty set
BatchesToRecomputeIfNeeded(groups) ==
    IF ShouldComputeBounds THEN {b \in dirtyMatrixBatches : HasMesh(groups, b)} ELSE {}

\* meshGroups.current.forEach((mesh) => { ... }) of computeBoundingBox: every batch
BatchesToRecompute(groups) == 0..(Len(groups) - 1)

computeBoundingBox ==
    /\ opCount < MaxOps
    /\ meshGroups' = [g \in 1..Len(meshGroups) |->
                         IF (g - 1) \in BatchesToRecompute(meshGroups)
                         THEN ComputeBounds(meshGroups[g])
                         ELSE meshGroups[g]]
    /\ boundsComputed' = BatchesToRecompute(meshGroups)
    /\ matrixNeedsUpdate' = {}
    /\ colorNeedsUpdate' = {}
    /\ lastOp' = Op("computeBoundingBox", 0, <<>>)
    /\ opCount' = opCount + 1
    /\ UNCHANGED <<animatorVars, pathVars>>
    /\ UNCHANGED <<props, batchSizeRef, currentInstanceCount, dirtyMatrixBatches,
                   dirtyColorBatches, result>>

Next ==
    \/ Render
    \/ getMatrixAt
    \/ setMatrixAt
    \/ getColorAt
    \/ setColorAt
    \/ setMatrices
    \/ setColors
    \/ setInstanceCount
    \/ updateMatrices
    \/ updateColors
    \/ useFrame
    \/ computeBoundingBox

Spec == Init /\ [][Next]_vars

\* the pool driven by writes and renders alone (no updateMatrices, no
\* updateColors), with the render loop calling the useFrame callback every frame
FrameNext ==
    \/ Render
    \/ setMatrixAt
    \/ setColorAt
    \/ setMatrices
    \/ setColors
    \/ useFrameCallback

\* a mount without handlers and without frustumCulled; a render may add them
FrameInit == Init /\ ~hasHandler /\ ~frustumCulled

FrameSpec == FrameInit /\ [][FrameNext]_vars /\ WF_vars(useFrameCallback)

\* ------------------------------------------------------------ GSAPAnimator
\* an AnimationConfig in the queue: `promise` when animate() wrapped its onComplete
\* with the resolve of the returned promise, `animated` when it has a position or
\* a rotation with at least one key
Config(id, promise, animated) == [id |-> id, promise |-> promise, animated |-> animated]

\* the config addAnimationPoint and the fetch loop build from a point: a position, no promise
PointConfig(id) == Config(id, FALSE, TRUE)

\* points.forEach(point => this.animationQueue.push(config)): n points from id on
RECURSIVE PointConfigs(_, _)
PointConfigs(id, n) == IF n = 0 THEN <<>> ELSE <<PointConfig(id)>> \o PointConfigs(id + 1, n - 1)

\* processQueue(): the queue and the flag it leaves, and the config it hands to
\* executeAnimation, if any
ProcessQueue(queue, animating, destroyed) ==
    IF destroyed \/ animating \/ queue = <<>>
    THEN [animationQueue |-> queue, isAnimating |-> animating, executed |-> <<>>]
    ELSE [animationQueue |-> Tail(queue), isAnimating |-> TRUE, executed |-> <<Head(queue)>>]

\* if (!hasPosition && !hasRotation) { resolve(); return }: the onComplete callbacks
\* that this path of executeAnimation runs
ResolvedWithoutTween(executed) == {}

\* executeAnimation(config): gsap.to(...) and this.tweens.add(tween)
TweensStarted(executed) == {executed[i] : i \in {j \in 1..Len(executed) : executed[j].animated}}

\* executeAnimation(config): the promises it returns already resolved
ThensQueued(executed) == Cardinality({j \in 1..Len(executed) : ~executed[j].animated})

\* executeAnimation(config): this.currentTimeline = gsap.timeline().add(tween)
TimelineAfter(executed, timeline) ==
    IF executed # <<>> /\ executed[1].animated THEN executed[1].id ELSE timeline

\* the part of a method that calls processQueue() on the queue `queue`, `thens`
\* being the reactions that stay pending
CallProcessQueue(queue, animating, thens) ==
    LET pq == ProcessQueue(queue, animating, isDestroyed)
    IN  /\ animationQueue' = pq.animationQueue
        /\ isAnimating' = pq.isAnimating
        /\ tweens' = tweens \cup TweensStarted(pq.executed)
        /\ ticking' = ticking \cup {config.id : config \in TweensStarted(pq.executed)}
        /\ currentTimeline' = TimelineAfter(pq.executed, currentTimeline)
        /\ pendingThens' = thens + ThensQueued(pq.executed)
        /\ started' = started \o [i \in 1..Len(pq.executed) |-> pq.executed[i].id]
        /\ promises' = [returned |-> promises.returned \cup
                                         {queue[i].id : i \in {j \in 1..Len(queue) : queue[j].promise}},
                        resolved |-> promises.resolved \cup ResolvedWithoutTween(pq.executed),
                        onComplete |-> promises.onComplete \cup ResolvedWithoutTween(pq.executed)]

\* animate(config): by the caller, in a task or in a continuation of its own
animate ==
    \E animated \in BOOLEAN :
        /\ nextId <= MaxConfigs
        /\ nextId' = nextId + 1
        /\ IF isDestroyed
           THEN /\ promises' = [promises EXCEPT !.returned = @ \cup {nextId},
                                                !.resolved = @ \cup {nextId}]
                /\ UNCHANGED <<animatorFields, pendingThens, started, ticking>>
           ELSE CallProcessQueue(Append(animationQueue, Config(nextId, TRUE, animated)),
                                 isAnimating, pendingThens)
        /\ UNCHANGED <<isDestroyed, continuousFields, pendingTimers, fetchesInFlight,
                       killed, fetchCalls, gsapFields, errorsLogged, poolVars, pathVars>>

\* addAnimationPoint(point)
addAnimationPoint ==
    /\ nextId <= MaxConfigs
    /\ nextId' = nextId + 1
    /\ IF isDestroyed
       THEN UNCHANGED <<animatorFields, pendingThens, started, promises, ticking>>
       ELSE CallProcessQueue(Append(animationQueue, PointConfig(nextId)),
                             isAnimating, pendingThens)
    /\ UNCHANGED <<isDestroyed, continuousFields, pendingTimers, fetchesInFlight,
                   killed, fetchCalls, gsapFields, errorsLogged, poolVars, pathVars>>

\* the onComplete of the tween of `config`, run by the gsap ticker in a task of
\* its own: tweens.delete(tween); config.onComplete?.(); resolve()
tweenOnComplete ==
    \E config \in tweens :
        /\ config.id \in ticking
        /\ pendingThens = 0
        /\ tweens' = tweens \ {config}
        /\ ticking' = ticking \ {config.id}
        /\ promises' = IF config.promise
                       THEN [promises EXCEPT !.resolved = @ \cup {config.id},
                                             !.onComplete = @ \cup {config.id}]
                       ELSE promises
        /\ pendingThens' = pendingThens + 1
        /\ UNCHANGED <<animationQueue, isAnimating, isDestroyed, currentTimeline,
                       continuousFields, pendingTimers, fetchesInFlight,
                       started, killed, nextId, fetchCalls, gsapFields, errorsLogged, poolVars, pathVars>>

\* the reaction of processQueue to a resolved executeAnimation promise:
\* .then(() => { this.isAnimating = false; if (!this.isDestroyed) this.processQueue() })
executeAnimationThen ==
    /\ pendingThens > 0
    /\ CallProcessQueue(animationQueue, FALSE, pendingThens - 1)
    /\ UNCHANGED <<isDestroyed, continuousFields, pendingTimers, fetchesInFlight,
                   killed, nextId, fetchCalls, gsapFields, errorsLogged, poolVars, pathVars>>

\* a kill() that kills the current timeline and the tracked tweens, not the
\* tracked timelines
KilledWithoutTimelines(timeline, tls, tws) == {timeline} \cup {config.id : config \in tws}

\* this.currentTimeline.kill(), timeline?.kill() for each of this.timelines,
\* tween?.kill() for each of this.tweens: the animations gsap stops rendering
Killed(timeline, tls, tws) == {timeline} \cup tls \cup {config.id : config \in tws}

\* kill()
kill ==
    /\ currentTimeline' = 0
    /\ timelines' = {}
    /\ tweens' = {}
    /\ ticking' = ticking \ Killed(currentTimeline, timelines, tweens)
    /\ animationQueue' = <<>>
    /\ isAnimating' = FALSE
    /\ killed' = TRUE
    /\ interrupted' = interrupted \cup ticking
    /\ UNCHANGED <<isDestroyed, continuousFields, eventLoop, promises, started,
                   nextId, fetchCalls, object3D, errorsLogged, poolVars, pathVars>>

\* clearTimeout(this.continuousInterval) when the handle is not null
ClearedTimers(timers, handle) == timers \ {handle}

\* stopContinuousAnimation()
stopContinuousAnimation ==
    /\ continuousMode' = FALSE
    /\ fetchPointsCallback' = FALSE
    /\ pendingTimers' = ClearedTimers(pendingTimers, continuousInterval)
    /\ continuousInterval' = 0
    /\ UNCHANGED <<animatorFields, pendingThens, fetchesInFlight, animatorObserved,
                   gsapFields, ticking, errorsLogged, poolVars, pathVars>>

\* destroy(): isDestroyed = true, stopContinuousAnimation(), kill(), and the clearing
destroy ==
    /\ isDestroyed' = TRUE
    /\ continuousMode' = FALSE
    /\ fetchPointsCallback' = FALSE
    /\ pendingTimers' = ClearedTimers(pendingTimers, continuousInterval)
    /\ continuousInterval' = 0
    /\ currentTimeline' = 0
    /\ timelines' = {}
    /\ tweens' = {}
    /\ ticking' = ticking \ Killed(currentTimeline, timelines, tweens)
    /\ animationQueue' = <<>>
    /\ isAnimating' = FALSE
    /\ killed' = TRUE
    /\ interrupted' = interrupted \cup ticking
    /\ UNCHANGED <<pendingThens, fetchesInFlight, promises, started, nextId, fetchCalls,
                   object3D, errorsLogged, poolVars, pathVars>>

\* fetchAndAnimate up to the await: the guard, then this.fetchPointsCallback()
FetchAndAnimate(mode, callback) ==
    IF mode /\ callback /\ ~isDestroyed
    THEN /\ fetchesInFlight' = fetchesInFlight + 1
         /\ fetchCalls' = fetchCalls + 1
    ELSE UNCHANGED <<fetchesInFlight, fetchCalls>>

\* startContinuousAnimation(fetchPointsCallback, intervalMs)
startContinuousAnimation ==
    /\ fetchCalls < MaxFetches
    /\ IF isDestroyed
       THEN UNCHANGED <<continuousMode, fetchPointsCallback, fetchesInFlight, fetchCalls>>
       ELSE /\ fetchPointsCallback' = TRUE
            /\ continuousMode' = TRUE
            /\ FetchAndAnimate(TRUE, TRUE)
    /\ UNCHANGED <<animatorFields, continuousInterval, pendingThens, pendingTimers,
                   promises, started, killed, nextId, gsapFields, ticking, errorsLogged, poolVars, pathVars>>

\* the largest handle of a set of timers, 0 for none
LastTimer(timers) == IF timers = {} THEN 0 ELSE CHOOSE t \in timers : \A u \in timers : u <= t

\* setTimeout returns a handle that no pending timer has and that is not the kept one
NewTimer == 1 + Max(continuousInterval, LastTimer(pendingTimers))

\* a fetchAndAnimate that schedules no further fetch
ScheduleNothing == UNCHANGED <<continuousInterval, pendingTimers>>

\* if (this.continuousMode && !this.isDestroyed) this.continuousInterval = setTimeout(...)
ScheduleNextFetch ==
    IF continuousMode /\ ~isDestroyed
    THEN /\ continuousInterval' = NewTimer
         /\ pendingTimers' = pendingTimers \cup {NewTimer}
    ELSE UNCHANGED <<continuousInterval, pendingTimers>>

\* fetchAndAnimate after the await, the callback having returned n points
fetchPointsResolved ==
    \E n \in 0..MaxPoints :
        /\ fetchesInFlight > 0
        /\ nextId + n - 1 <= MaxConfigs
        /\ fetchesInFlight' = fetchesInFlight - 1
        /\ nextId' = nextId + n
        /\ IF n > 0 /\ ~isDestroyed
           THEN CallProcessQueue(animationQueue \o PointConfigs(nextId, n),
                                 isAnimating, pendingThens)
           ELSE UNCHANGED <<animatorFields, pendingThens, started, promises, ticking>>
        /\ ScheduleNextFetch
        /\ UNCHANGED <<isDestroyed, continuousMode, fetchPointsCallback, killed,
                       fetchCalls, gsapFields, errorsLogged, poolVars, pathVars>>

\* fetchAndAnimate after the await, the callback having rejected: catch (error)
fetchPointsRejected ==
    /\ fetchesInFlight > 0
    /\ fetchesInFlight' = fetchesInFlight - 1
    /\ errorsLogged' = errorsLogged + 1
    /\ ScheduleNextFetch
    /\ UNCHANGED <<animatorFields, continuousMode, fetchPointsCallback, pendingThens,
                   animatorObserved, gsapFields, ticking, poolVars, pathVars>>

\* setTimeout(fetchAndAnimate, intervalMs) firing, in a task of its own
continuousTimeout ==
    \E timer \in pendingTimers :
        /\ pendingThens = 0
        /\ fetchCalls < MaxFetches
        /\ pendingTimers' = pendingTimers \ {timer}
        /\ FetchAndAnimate(continuousMode, fetchPointsCallback)
        /\ UNCHANGED <<animatorFields, continuousFields, pendingThens, promises,
                       started, killed, nextId, gsapFields, ticking, errorsLogged, poolVars, pathVars>>

\* animateSequence(configs): a timeline of its own, outside the queue
animateSequence ==
    /\ nextId <= MaxConfigs
    /\ nextId' = nextId + 1
    /\ IF isDestroyed
       THEN /\ promises' = [promises EXCEPT !.resolved = @ \cup {nextId}]
            /\ UNCHANGED <<timelines, ticking, currentTimeline>>
       ELSE /\ timelines' = timelines \cup {nextId}
            /\ ticking' = ticking \cup {nextId}
            /\ currentTimeline' = nextId
            /\ UNCHANGED promises
    /\ UNCHANGED <<animationQueue, isAnimating, isDestroyed, tweens, continuousFields,
                   eventLoop, started, killed, fetchCalls, object3D, interrupted, errorsLogged, poolVars, pathVars>>

\* the onComplete of the timeline of animateSequence, run by the gsap ticker
timelineOnComplete ==
    \E timeline \in timelines \cap ticking :
        /\ pendingThens = 0
        /\ timelines' = timelines \ {timeline}
        /\ ticking' = ticking \ {timeline}
        /\ currentTimeline' = IF currentTimeline = timeline THEN 0 ELSE currentTimeline
        /\ promises' = [promises EXCEPT !.resolved = @ \cup {timeline}]
        /\ UNCHANGED <<animationQueue, isAnimating, isDestroyed, tweens, continuousFields,
                       eventLoop, started, killed, nextId, fetchCalls, object3D,
                       interrupted, errorsLogged, poolVars, pathVars>>

\* onUpdate of a tween that gsap renders: if (this.isDestroyed) return; then the
\* position and the rotation of this.object3D are written
onUpdate ==
    \E animation \in ticking :
        /\ pendingThens = 0
        /\ object3D.writes < MaxUpdates
        /\ object3D' = IF isDestroyed
                       THEN object3D
                       ELSE [position |-> animation, writes |-> object3D.writes + 1]
        /\ UNCHANGED <<animatorFields, continuousFields, eventLoop, animatorObserved,
                       timelines, ticking, interrupted, errorsLogged, poolVars, pathVars>>

AnimatorNext ==
    \/ animateSequence
    \/ timelineOnComplete
    \/ onUpdate
    \/ animate
    \/ addAnimationPoint
    \/ tweenOnComplete
    \/ executeAnimationThen
    \/ kill
    \/ stopContinuousAnimation
    \/ destroy
    \/ startContinuousAnimation
    \/ fetchPointsResolved
    \/ fetchPointsRejected
    \/ continuousTimeout

\* an animator beside a pool that holds nothing
AnimatorInit ==
    /\ Init
    /\ maxInstances = 0
    /\ batchSize = 1
    /\ ~enableColors
    /\ ~frustumCulled
    /\ ~hasHandler

\* every running tween completes, and every queued promise reaction runs
AnimatorSpec ==
    /\ AnimatorInit
    /\ [][AnimatorNext]_vars
    /\ WF_vars(tweenOnComplete)
    /\ WF_vars(executeAnimationThen)

\* ------------------------------------------------------------ moveAlongPath
\* utils/moveAlongPath.ts: the moveAlongPath function and one PathAnimator, both
\* driving the same object.  A path is one-dimensional here: a position is a
\* coordinate or Undefined, the curve is sampled at its control points.

\* const points = positions.map(pos => pos.x !== undefined ? pos.x : object3D.position.x)
Points(positions, current) ==
    [i \in 1..Len(positions) |-> IF positions[i] = Undefined THEN current ELSE positions[i]]

\* the guard accepting every non-empty path
OnePositionSuffices(positions) == Len(positions) < 1

\* if (positions.length < 2) { console.warn(...); resolve(); return; }
TooFewPositions(positions) == Len(positions) < 2

\* the quaternion set from the curve's tangent at control point k
Heading(points, k) ==
    IF points[k] > points[k - 1] THEN 1
    ELSE IF points[k] < points[k - 1] THEN 2
    ELSE 3

\* gsap.to(proxy, { progress: 1, ... }) over the curve through the points
PathTween(id, owner, positions, autoRotate, debug) ==
    [id |-> id, owner |-> owner, points |-> Points(positions, pathObject.position),
     autoRotate |-> autoRotate, debug |-> debug, at |-> 0]

PathInputs == UNION {[1..n -> {Undefined} \cup Coords] : n \in 0..MaxPathLen}

\* what a call is remembered by: its form and the length of config.positions
PathCall(kind, positions) == [kind |-> kind, length |-> Len(positions)]

\* export function moveAlongPath(object3D, config)
moveAlongPath ==
    \E positions \in PathInputs, autoRotate \in BOOLEAN, debug \in BOOLEAN :
        LET id == Len(pathCallLog) + 1 IN
        /\ Len(pathCallLog) < MaxPathCalls
        /\ pathCallLog' = Append(pathCallLog, PathCall("function", positions))
        /\ IF TooFewPositions(positions)
           THEN /\ pathResolved' = pathResolved \cup {id}
                /\ UNCHANGED <<pathTweens, sceneLines>>
           ELSE /\ pathTweens' = pathTweens
                                 \cup {PathTween(id, "function", positions, autoRotate, debug)}
                /\ sceneLines' = IF debug THEN sceneLines \cup {id} ELSE sceneLines
                /\ UNCHANGED pathResolved
        /\ UNCHANGED <<pathObject, currentTween, debugLine, pathIsDestroyed,
                       poolVars, animatorVars>>

\* PathAnimator.kill(): the tweens and the debug lines it leaves
TweensAfterKill == {t \in pathTweens : t.id # currentTween}
LinesAfterKill == sceneLines \ {debugLine}

\* PathAnimator.moveAlongPath(config)
PathAnimatorMoveAlongPath ==
    \E positions \in PathInputs, autoRotate \in BOOLEAN, debug \in BOOLEAN :
        LET id == Len(pathCallLog) + 1 IN
        /\ Len(pathCallLog) < MaxPathCalls
        /\ pathCallLog' = Append(pathCallLog, PathCall("method", positions))
        /\ IF pathIsDestroyed
           THEN /\ pathResolved' = pathResolved \cup {id}
                /\ UNCHANGED <<pathTweens, sceneLines, currentTween, debugLine>>
           ELSE IF TooFewPositions(positions)
           THEN /\ pathResolved' = pathResolved \cup {id}
                /\ pathTweens' = TweensAfterKill
                /\ sceneLines' = LinesAfterKill
                /\ currentTween' = 0
                /\ debugLine' = 0
           ELSE /\ pathTweens' = TweensAfterKill
                                 \cup {PathTween(id, "animator", positions, autoRotate, debug)}
                /\ sceneLines' = IF debug THEN LinesAfterKill \cup {id} ELSE LinesAfterKill
                /\ currentTween' = id
                /\ debugLine' = IF debug THEN id ELSE 0
                /\ UNCHANGED pathResolved
        /\ UNCHANGED <<pathObject, pathIsDestroyed, poolVars, animatorVars>>

\* the tween's onUpdate: the object is copied to the next sampled point of the curve
pathOnUpdate ==
    \E t \in pathTweens :
        LET k == t.at + 1 IN
        /\ t.at < Len(t.points)
        /\ pathTweens' = (pathTweens \ {t}) \cup {[t EXCEPT !.at = k]}
        /\ pathObject' = IF t.owner = "animator" /\ pathIsDestroyed
                         THEN pathObject
                         ELSE [position |-> t.points[k],
                               rotation |-> IF t.autoRotate /\ k > 1
                                            THEN Heading(t.points, k)
                                            ELSE pathObject.rotation]
        /\ UNCHANGED <<currentTween, debugLine, sceneLines, pathIsDestroyed,
                       pathResolved, pathCallLog, poolVars, animatorVars>>

\* the tween's onComplete
pathOnComplete ==
    \E t \in pathTweens :
        /\ t.at = Len(t.points)
        /\ pathTweens' = pathTweens \ {t}
        /\ pathResolved' = pathResolved \cup {t.id}
        /\ IF t.owner = "function"
           THEN /\ sceneLines' = IF t.debug THEN sceneLines \ {t.id} ELSE sceneLines
                /\ UNCHANGED <<currentTween, debugLine>>
           ELSE /\ currentTween' = 0
                /\ IF debugLine # 0 /\ t.debug
                   THEN sceneLines' = sceneLines \ {debugLine} /\ debugLine' = 0
                   ELSE UNCHANGED <<sceneLines, debugLine>>
        /\ UNCHANGED <<pathObject, pathIsDestroyed, pathCallLog, poolVars, animatorVars>>

\* PathAnimator.kill()
PathAnimatorKill ==
    /\ pathTweens' = TweensAfterKill
    /\ sceneLines' = LinesAfterKill
    /\ currentTween' = 0
    /\ debugLine' = 0
    /\ UNCHANGED <<pathObject, pathIsDestroyed, pathResolved, pathCallLog,
                   poolVars, animatorVars>>

\* PathAnimator.destroy()
PathAnimatorDestroy ==
    /\ pathIsDestroyed' = TRUE
    /\ pathTweens' = TweensAfterKill
    /\ sceneLines' = LinesAfterKill
    /\ currentTween' = 0
    /\ debugLine' = 0
    /\ UNCHANGED <<pathObject, pathResolved, pathCallLog, poolVars, animatorVars>>

PathNext ==
    \/ moveAlongPath
    \/ PathAnimatorMoveAlongPath
    \/ pathOnUpdate
    \/ pathOnComplete
    \/ PathAnimatorKill
    \/ PathAnimatorDestroy

PathSpec == AnimatorInit /\ [][PathNext]_vars

\* ------------------------------------------------------------------ claims
\* the batch indices that the index range of the last write routes to
Touched == {GroupIndex(lastOp.index + j) : j \in 0..(Len(lastOp.values) - 1)}

\* lo <= hi: x limited to lo..hi
Clamp(x, lo, hi) == IF x < lo THEN lo ELSE IF x > hi THEN hi ELSE x

\* C1: for every index i with 0 <= i < maxInstances and every matrix T, after
\* setMatrixAt(i, T) followed by a flush, getMatrixAt(i) returns T.
C1_RoundTrip ==
    [][\A i \in Indices, T \in Matrices :
          (/\ lastOp.op = "setMatrixAt"
           /\ lastOp.index = i
           /\ lastOp.values = <<T>>
           /\ i \in 0..(maxInstances - 1)
           /\ lastOp'.op \in FlushOps
           /\ opCount' = opCount + 1)
          => GetMatrixAt(meshGroups, i, Identity)' = T]_vars

\* C2 as stated: after setMatrices(ms, start) on a pool whose matrix dirty set was
\* empty, the matrix dirty set is exactly the set of floor(j / batchSize) for j in
\* [start, start + n), whether or not such a batch is allocated.
C2_DirtyEqualsCover ==
    (lastOp.op = "setMatrices" /\ lastOp.before.dirtyMatrix = {})
    => dirtyMatrixBatches = Touched

\* C2 amended: after setMatrices(ms, start) on a pool whose matrix dirty set was
\* empty, the matrix dirty set is exactly the set of the allocated batches among
\* floor(j / batchSize) for j in [start, start + n).
C2_DirtyEqualsAllocatedCover ==
    (lastOp.op = "setMatrices" /\ lastOp.before.dirtyMatrix = {})
    => dirtyMatrixBatches = Touched \cap AllBatches

\* C2 witness: a bulk write over two batches of a clean pool has marked both.
C2_Witness ==
    /\ lastOp.op = "setMatrices"
    /\ lastOp.before.dirtyMatrix = {}
    /\ Len(lastOp.values) = 2
    /\ Cardinality(dirtyMatrixBatches) = 2

\* C3: after setInstanceCount(k) with 0 <= k <= maxInstances every allocated batch
\* b draws clamp(k - b*batchSize, 0, batchSize) instances; batchSize = 4 and k = 7
\* give the counts 4, 3, 0 for three batches.
C3_CountsAreClamped ==
    /\ (lastOp.op = "setInstanceCount" /\ lastOp.index \in 0..maxInstances)
       => \A b \in AllBatches :
             meshGroups[b + 1].count = Clamp(lastOp.index - b * batchSize, 0, batchSize)
    /\ <<GroupCountFor(7, 0, 4), GroupCountFor(7, 4, 4), GroupCountFor(7, 8, 4)>> = <<4, 3, 0>>

\* C3 witness: setInstanceCount(k) has left one batch drawing and a later one at 0.
C3_Witness ==
    /\ lastOp.op = "setInstanceCount"
    /\ lastOp.index \in 1..maxInstances
    /\ \E b \in AllBatches : meshGroups[b + 1].count > 0
    /\ \E b \in AllBatches : meshGroups[b + 1].count = 0

\* C4: a flush that directly follows a flush recomputes no bounding volume and
\* sets no upload flag.
C4_SecondFlushIsNoOp ==
    (lastOp.op \in FlushOps /\ lastOp.before.op \in FlushOps)
    => /\ boundsComputed = {}
       /\ matrixNeedsUpdate = {}
       /\ colorNeedsUpdate = {}

\* C4 witness: a write, a flush and a second flush have happened, in this order.
C4_Witness ==
    /\ opCount = 3
    /\ lastOp.op \in FlushOps
    /\ lastOp.before.op \in FlushOps
    /\ \E b \in AllBatches : meshGroups[b + 1].boundingBox = "computed"

\* C5: after any flush the matrix dirty set and the colour dirty set are empty.
C5_FlushDrainsBoth ==
    lastOp.op \in FlushOps => (dirtyMatrixBatches = {} /\ dirtyColorBatches = {})

\* C5 witness: a flush has run on a pool with matrix-dirty and colour-dirty batches.
C5_Witness ==
    /\ lastOp.op \in FlushOps
    /\ lastOp.before.dirtyMatrix # {}
    /\ lastOp.before.dirtyColor # {}

C8_NoHandlerNoBounds ==
    (lastOp.op \in FlushOps /\ ~hasHandler) => boundsComputed = {}

\* C9: after every render the pool holds ceil(maxInstances / batchSize) batches,
\* the least n with n * batchSize >= maxInstances; batchSize = 4 and
\* maxInstances = 10 need 3.
C9_BatchCount ==
    /\ Len(meshGroups) * batchSize >= maxInstances
    /\ (Len(meshGroups) - 1) * batchSize < maxInstances
    /\ NeededGroups(10, 4) = 3

\* C9 witness: a render has released batches and a batch remains.
C9_Witness ==
    /\ lastOp.op = "render"
    /\ lastOp.before.batches > Len(meshGroups)
    /\ Len(meshGroups) > 0

\* C10: a render that raises maxInstances and keeps batchSize leaves what
\* getMatrixAt(i) returns unchanged for every i below the old maxInstances.
C10_GrowthPreservesTransforms ==
    [][(/\ lastOp'.op = "render"
        /\ opCount' = opCount + 1
        /\ batchSize' = batchSize
        /\ maxInstances' > maxInstances)
       => \A i \in 0..(maxInstances - 1) :
             GetMatrixAt(meshGroups, i, Identity)' = GetMatrixAt(meshGroups, i, Identity)]_vars

\* C10 witness: after a growth with the same batchSize a transform written before
\* it is still read back.
C10_Witness ==
    /\ lastOp.op = "render"
    /\ lastOp.before.maxInstances < maxInstances
    /\ lastOp.before.batchSize = batchSize
    /\ lastOp.before.batches < Len(meshGroups)
    /\ \E i \in 0..(lastOp.before.maxInstances - 1) :
          GetMatrixAt(meshGroups, i, Identity) \in Matrices

\* C11: a render that lowers maxInstances and keeps batchSize leaves exactly the
\* first ceil(newMax / batchSize) batches, each as it was (transforms, colours,
\* count), so that every index routed to a retained batch reads back as before.
C11_ShrinkKeepsLeadingBatches ==
    [][(/\ lastOp'.op = "render"
        /\ opCount' = opCount + 1
        /\ batchSize' = batchSize
        /\ maxInstances' < maxInstances)
       => /\ Len(meshGroups') * batchSize' >= maxInstances'
          /\ (Len(meshGroups') - 1) * batchSize' < maxInstances'
          /\ Len(meshGroups') <= Len(meshGroups)
          /\ \A g \in 1..Len(meshGroups') : meshGroups'[g] = meshGroups[g]
          /\ \A i \in 0..(Len(meshGroups') * batchSize' - 1) :
                /\ GetMatrixAt(meshGroups, i, Identity)' = GetMatrixAt(meshGroups, i, Identity)
                /\ GetColorAt(meshGroups, i, Black)' = GetColorAt(meshGroups, i, Black)]_vars

\* C11 witness: a shrink with the same batchSize has released a batch and kept
\* one that holds a written transform.
C11_Witness ==
    /\ lastOp.op = "render"
    /\ lastOp.before.maxInstances > maxInstances
    /\ lastOp.before.batchSize = batchSize
    /\ lastOp.before.batches > Len(meshGroups)
    /\ \E b \in AllBatches : \E o \in 1..meshGroups[b + 1].capacity :
          meshGroups[b + 1].instanceMatrix[o] \in Matrices

\* the square of the length of a translation
SquaredLength(t) == t[1] * t[1] + t[2] * t[2] + t[3] * t[3]

\* C12: in every reachable state a slot that holds none of the written transforms
\* (no write has reached it) holds the parking transform of its offset, whose
\* translation is at least FarDistance long.
C12_UnwrittenSlotsAreParked ==
    \A b \in AllBatches : \A o \in 1..meshGroups[b + 1].capacity :
        meshGroups[b + 1].instanceMatrix[o] \notin Matrices
        => /\ meshGroups[b + 1].instanceMatrix[o] = <<0, FarDistance + (o - 1), 0>>
           /\ SquaredLength(meshGroups[b + 1].instanceMatrix[o]) >= FarDistance * FarDistance

\* C12 witness: a batch holds a written slot next to a slot still parked.
C12_Witness ==
    \E b \in AllBatches : \E o, w \in 1..meshGroups[b + 1].capacity :
        /\ meshGroups[b + 1].instanceMatrix[w] \in Matrices
        /\ meshGroups[b + 1].instanceMatrix[o] = Parked(o - 1)

\* an index below 0 or at or beyond allocated batches * batchSize
OutOfRange(index) == index < 0 \/ index >= Len(meshGroups) * batchSizeRef

IndexedOps == {"getMatrixAt", "getColorAt", "setMatrixAt", "setColorAt", "setMatrices", "setColors"}

\* what C13 requires to stay as it was, and the value a read hands back
NothingStored ==
    /\ meshGroups' = meshGroups
    /\ currentInstanceCount' = currentInstanceCount
    /\ dirtyMatrixBatches' = dirtyMatrixBatches
    /\ dirtyColorBatches' = dirtyColorBatches
    /\ lastOp'.op \in {"getMatrixAt", "getColorAt"} => result' = lastOp'.values[1]

\* C13 as stated: a single or bulk write, or a read, whose index (for a bulk write
\* its start index) is out of range changes no transform, colour, count or dirty set.
C13_OutOfRangeIsNoOp ==
    [][(/\ lastOp'.op \in IndexedOps
        /\ opCount' = opCount + 1
        /\ OutOfRange(lastOp'.index))
       => NothingStored]_vars

\* C13 amended: a single write or read at an out-of-range index, and a bulk write
\* all of whose positions start .. start + n - 1 are out of range, changes no
\* transform, colour, count or dirty set, and a read returns the value passed in.
C13_AllOutOfRangeIsNoOp ==
    [][(/\ lastOp'.op \in IndexedOps
        /\ opCount' = opCount + 1
        /\ \A j \in 0..(Len(lastOp'.values) - 1) : OutOfRange(lastOp'.index + j))
       => NothingStored]_vars

\* C13 witness: with batches allocated and a batch already dirty, a two-element
\* bulk write starting beyond the capacity, or a single write below 0, has run.
C13_Witness ==
    /\ Len(meshGroups) > 0
    /\ lastOp.before.dirtyMatrix # {}
    /\ \/ /\ lastOp.op = "setMatrices"
          /\ Len(lastOp.values) = 2
          /\ lastOp.index >= Len(meshGroups) * batchSizeRef
       \/ /\ lastOp.op = "setMatrixAt"
          /\ lastOp.index < 0

\* the step changed no batch (no colour stored, no colour buffer created) and
\* left the colour dirty set empty
ColorWriteDidNothing ==
    /\ meshGroups' = meshGroups
    /\ dirtyColorBatches' = {}

\* C14 as stated: on a pool mounted with enableColors = false, setColorAt and
\* setColors store no colour, create no colour buffer and leave the colour dirty
\* set empty.
C14_ConstructedWithoutColors ==
    [][(/\ lastOp'.op \in ColorWrites
        /\ opCount' = opCount + 1
        /\ ~enableColorsHistory.constructed)
       => ColorWriteDidNothing]_vars

\* C14 amended: on a pool mounted with enableColors = false and never rendered
\* with enableColors = true since, setColorAt and setColors store no colour,
\* create no colour buffer and leave the colour dirty set empty.
C14_NeverEnabledColors ==
    [][(/\ lastOp'.op \in ColorWrites
        /\ opCount' = opCount + 1
        /\ ~enableColorsHistory.ever)
       => /\ ColorWriteDidNothing
          /\ \A g \in 1..Len(meshGroups') : meshGroups'[g].instanceColor = NoColor]_vars

\* C14 witness: a colour write at an allocated index of a pool that never had
\* enableColors = true.
C14_Witness ==
    /\ lastOp.op \in ColorWrites
    /\ ~enableColorsHistory.ever
    /\ Len(lastOp.values) > 0
    /\ \E j \in 0..(Len(lastOp.values) - 1) : HasMesh(meshGroups, GroupIndex(lastOp.index + j))

\* C15: setMatrixAt(i, T) with 0 <= i < allocated batches * batchSize changes at
\* most slot (i div batchSize, i mod batchSize), which then holds T when the batch
\* has that slot, adds exactly that batch to the matrix dirty set, sets no upload
\* flag, computes no bounds, and leaves every other slot, every colour, every
\* count and the colour dirty set as they were.
C15_SetMatrixAtFrame ==
    [][(/\ lastOp'.op = "setMatrixAt"
        /\ opCount' = opCount + 1
        /\ lastOp'.index \in 0..(Len(meshGroups) * batchSizeRef - 1))
       => LET i == lastOp'.index
              b == i \div batchSizeRef
              o == i % batchSizeRef
          IN  /\ Len(meshGroups') = Len(meshGroups)
              /\ \A g \in 1..Len(meshGroups) :
                    /\ meshGroups'[g].capacity = meshGroups[g].capacity
                    /\ meshGroups'[g].instanceColor = meshGroups[g].instanceColor
                    /\ meshGroups'[g].count = meshGroups[g].count
                    /\ meshGroups'[g].boundingBox = meshGroups[g].boundingBox
                    /\ \A s \in 1..meshGroups[g].capacity :
                          (g # b + 1 \/ s # o + 1)
                          => meshGroups'[g].instanceMatrix[s] = meshGroups[g].instanceMatrix[s]
              /\ o < meshGroups[b + 1].capacity
                 => meshGroups'[b + 1].instanceMatrix[o + 1] = lastOp'.values[1]
              /\ dirtyMatrixBatches' = dirtyMatrixBatches \cup {b}
              /\ dirtyColorBatches' = dirtyColorBatches
              /\ currentInstanceCount' = currentInstanceCount
              /\ matrixNeedsUpdate' = {}
              /\ colorNeedsUpdate' = {}
              /\ boundsComputed' = {}]_vars

\* C15 witness: a setMatrixAt into index 1 of a pool whose index 0 holds another
\* written transform; the new transform is in place and no upload is signalled.
C15_Witness ==
    /\ lastOp.op = "setMatrixAt"
    /\ lastOp.index = 1
    /\ lastOp.index < Len(meshGroups) * batchSizeRef
    /\ GetMatrixAt(meshGroups, 1, Identity) = lastOp.values[1]
    /\ GetMatrixAt(meshGroups, 0, Identity) \in Matrices
    /\ GetMatrixAt(meshGroups, 0, Identity) # lastOp.values[1]
    /\ matrixNeedsUpdate = {}

\* C16: computeBoundingBox computes the bounding volume of every allocated batch,
\* whatever the dirty sets, the handlers and frustumCulled are, changes nothing
\* else of a batch, and leaves both dirty sets and every upload flag as they were.
C16_ComputeBoundingBoxIsUnconditional ==
    [][(lastOp'.op = "computeBoundingBox" /\ opCount' = opCount + 1)
       => /\ Len(meshGroups') = Len(meshGroups)
          /\ boundsComputed' = 0..(Len(meshGroups) - 1)
          /\ \A g \in 1..Len(meshGroups) :
                meshGroups'[g] = [meshGroups[g] EXCEPT !.boundingBox = "computed"]
          /\ dirtyMatrixBatches' = dirtyMatrixBatches
          /\ dirtyColorBatches' = dirtyColorBatches
          /\ matrixNeedsUpdate' = {}
          /\ colorNeedsUpdate' = {}]_vars

\* C16 witness: computeBoundingBox has run with no handler, no frustumCulled and
\* a clean batch beside a dirty one, and every batch has its bounds.
C16_Witness ==
    /\ lastOp.op = "computeBoundingBox"
    /\ ~hasHandler
    /\ ~frustumCulled
    /\ dirtyMatrixBatches # {}
    /\ AllBatches \ dirtyMatrixBatches # {}
    /\ boundsComputed = AllBatches
    /\ \A b \in AllBatches : meshGroups[b + 1].boundingBox = "computed"

\* the batch indices a pool of this size can have
BatchIndices == 0..(MaxInstancesBound - 1)

\* C17: with the useFrame callback scheduled fairly and no call of updateMatrices
\* or updateColors, a batch in the matrix dirty set is eventually out of it after
\* a frame that raised its instanceMatrix.needsUpdate (if the batch still exists),
\* and likewise a batch in the colour dirty set and its instanceColor.needsUpdate.
C17_WritesAreFlushedByFrames ==
    \A b \in BatchIndices :
        /\ (b \in dirtyMatrixBatches)
              ~> (/\ lastOp.op = "useFrame"
                  /\ b \notin dirtyMatrixBatches
                  /\ b \in lastOp.before.dirtyMatrix
                  /\ HasMesh(meshGroups, b) => b \in matrixNeedsUpdate)
        /\ (b \in dirtyColorBatches)
              ~> (/\ lastOp.op = "useFrame"
                  /\ b \notin dirtyColorBatches
                  /\ b \in lastOp.before.dirtyColor
                  /\ HasColorMesh(meshGroups, b) => b \in colorNeedsUpdate)

\* C17 witness: a frame has flushed a batch that a write had marked, raising its
\* upload flag, with no flush called by hand before it.
C17_Witness ==
    /\ lastOp.op = "useFrame"
    /\ lastOp.before.op \in MatrixWrites
    /\ lastOp.before.dirtyMatrix # {}
    /\ dirtyMatrixBatches = {}
    /\ matrixNeedsUpdate = lastOp.before.dirtyMatrix

\* every batch has the capacity of the current batchSize
UniformCapacity == \A g \in 1..Len(meshGroups) : meshGroups[g].capacity = batchSize

\* C18: for every batchSize, index -> (floor(index / batchSize), index mod batchSize)
\* and (b, o) -> b * batchSize + o are mutual inverses on index >= 0 and
\* 0 <= o < batchSize, index 9 with batchSize 4 being (2, 1); and in a pool whose
\* batches all have the current batchSize, the index a handler of batch b reports
\* for instanceId o routes back to slot (b, o), so that after setMatrixAt(i, T) the
\* one slot whose handler reports i holds T.
C18_RoutingIsBijective ==
    /\ \A bs \in 1..MaxRoutedBatchSize : \A i \in 0..MaxRoutedIndex :
          /\ InstanceIndexFor(i, bs) \in 0..(bs - 1)
          /\ OffsetFor(GroupIndexFor(i, bs), bs) + InstanceIndexFor(i, bs) = i
    /\ \A bs \in 1..MaxRoutedBatchSize : \A b \in 0..MaxRoutedIndex : \A o \in 0..(bs - 1) :
          /\ GroupIndexFor(OffsetFor(b, bs) + o, bs) = b
          /\ InstanceIndexFor(OffsetFor(b, bs) + o, bs) = o
    /\ <<GroupIndexFor(9, 4), InstanceIndexFor(9, 4)>> = <<2, 1>>
    /\ UniformCapacity
       => /\ \A b \in AllBatches : \A o \in 0..(batchSize - 1) :
                /\ GroupIndex(HandlerIndex(b, o)) = b
                /\ InstanceIndex(HandlerIndex(b, o)) = o
          /\ (lastOp.op = "setMatrixAt" /\ HasMesh(meshGroups, GroupIndex(lastOp.index)))
             => /\ \A b \in AllBatches : \A o \in 0..(batchSize - 1) :
                      HandlerIndex(b, o) = lastOp.index
                      => meshGroups[b + 1].instanceMatrix[o + 1] = lastOp.values[1]
                /\ \E b \in AllBatches : \E o \in 0..(batchSize - 1) :
                      HandlerIndex(b, o) = lastOp.index

\* C18 witness: a write through setMatrixAt landed in a batch other than the first
\* of a pool whose batches all have the current batchSize.
C18_Witness ==
    /\ UniformCapacity
    /\ lastOp.op = "setMatrixAt"
    /\ GroupIndex(lastOp.index) > 0
    /\ HasMesh(meshGroups, GroupIndex(lastOp.index))
    /\ GetMatrixAt(meshGroups, lastOp.index, Identity) = lastOp.values[1]

\* C19: on an animator that is neither killed nor destroyed, and whose tweens all
\* complete, every promise returned by animate(config) is eventually resolved,
\* config.onComplete having run.
C19_AnimatePromiseResolves ==
    \A id \in 1..MaxConfigs :
        (id \in promises.returned /\ ~killed)
           ~> (killed \/ (id \in promises.resolved /\ id \in promises.onComplete))

\* C20: at most one tween started from the queue is running, and the configs are
\* handed to executeAnimation in the order in which they were queued.
C20_SequentialFifo ==
    /\ Cardinality(tweens) <= 1
    /\ \A i, j \in 1..Len(started) : i < j => started[i] < started[j]

\* C21: when kill() returns the queue, the tween set and the timeline set are
\* empty, no current timeline is set and isAnimating is false; and no animation
\* that was running when kill() was called writes the object afterwards.
C21_KillStopsEverything ==
    [][/\ kill => /\ Len(animationQueue') = 0
                  /\ Cardinality(tweens') = 0
                  /\ Cardinality(timelines') = 0
                  /\ currentTimeline' = 0
                  /\ ~isAnimating'
       /\ object3D' # object3D => object3D'.position \notin interrupted]_vars

\* C21 witness: kill() interrupted two running animations, and an animation
\* started after it has written the object.
C21_Witness ==
    /\ killed
    /\ ~isDestroyed
    /\ Cardinality(interrupted) >= 2
    /\ object3D.position # 0
    /\ object3D.position \notin interrupted
    /\ timelines = {}

\* what destroy() is to leave behind: nothing queued, tracked or scheduled
CleanedUp ==
    /\ animationQueue = <<>>
    /\ tweens = {}
    /\ timelines = {}
    /\ pendingTimers = {}

\* a step of a destroyed animator: it stays destroyed, the object is not written,
\* nothing is queued, started, fetched or scheduled, and animate and
\* animateSequence return a promise that is resolved already
DestroyedStep ==
    /\ isDestroyed'
    /\ object3D' = object3D
    /\ ticking' = {}
    /\ ~continuousMode'
    /\ fetchCalls' = fetchCalls
    /\ (animate \/ animateSequence) => nextId \in promises'.resolved

\* C22: in every state after destroy() isDestroyed is true, the queue, the tween
\* set and the timeline set are empty and no fetch timer is pending; the object is
\* never written again and animate, animateSequence, addAnimationPoint and
\* startContinuousAnimation have no effect, a fetch in flight included.
C22_DestroyIsPermanent ==
    [][/\ isDestroyed' => CleanedUp'
       /\ isDestroyed => DestroyedStep]_vars

\* C23: from stopContinuousAnimation() until the next startContinuousAnimation()
\* (continuousMode is false) no fetch timer is pending, the fetch callback is not
\* invoked, and a fetch that was in flight appends nothing to the queue and starts nothing.
C23_StopEndsContinuousMode ==
    [][/\ ~continuousMode' => pendingTimers' = {}
       /\ (~continuousMode /\ ~continuousMode') => fetchCalls' = fetchCalls
       /\ (~continuousMode /\ fetchPointsResolved)
          => UNCHANGED <<animationQueue, started, tweens>>]_vars

\* C24: a fetch that rejects is caught and logged, enqueues and starts nothing,
\* and, continuous mode being on and the animator not destroyed, schedules a new
\* timer; and a timer that fires in continuous mode invokes the callback again.
C24_RejectedFetchKeepsLooping ==
    [][/\ fetchPointsRejected
          => /\ errorsLogged' = errorsLogged + 1
             /\ UNCHANGED <<animationQueue, started, tweens, isAnimating, continuousMode>>
             /\ (continuousMode /\ ~isDestroyed)
                => /\ continuousInterval' \in pendingTimers' \ pendingTimers
                   /\ pendingTimers \subseteq pendingTimers'
       /\ (continuousTimeout /\ continuousMode /\ fetchPointsCallback /\ ~isDestroyed)
          => /\ fetchCalls' = fetchCalls + 1
             /\ fetchesInFlight' = fetchesInFlight + 1]_vars

\* C24 witness: the first fetch was rejected, the timer it scheduled has fired
\* and the callback is being called a second time.
C24_Witness ==
    /\ errorsLogged = 1
    /\ fetchCalls = 2
    /\ fetchesInFlight = 1
    /\ continuousMode
    /\ ~isDestroyed
    /\ continuousInterval # 0
    /\ pendingTimers = {}
    /\ nextId = 1

\* C25: a moveAlongPath call (function or PathAnimator method) with fewer than
\* two positions resolves its promise in the call, starts no tween, and leaves
\* the object's position and rotation as they were.
C25_TooFewPositions ==
    [][(/\ Len(pathCallLog') = Len(pathCallLog) + 1
        /\ pathCallLog'[Len(pathCallLog')].length < 2)
       => /\ Len(pathCallLog') \in pathResolved'
          /\ pathTweens' \subseteq pathTweens
          /\ pathObject' = pathObject]_vars

\* C25 witness: after an animation moved and turned the object, the function
\* and the method were each called with one position, and both calls resolved.
C25_Witness ==
    /\ Len(pathCallLog) = 3
    /\ pathCallLog[2].kind = "function"
    /\ pathCallLog[3].kind = "method"
    /\ pathCallLog[2].length = 1
    /\ pathCallLog[3].length = 1
    /\ {2, 3} \subseteq pathResolved
    /\ pathObject = [position |-> 2, rotation |-> 1]

\* C26: in every reachable state, also after maxInstances shrank while writes
\* were unflushed, every index in the matrix dirty set and in the colour dirty
\* set is the index of an allocated batch.
C26_DirtyBatchesAllocated ==
    (dirtyMatrixBatches \cup dirtyColorBatches) \subseteq AllBatches

\* C27: in every reachable state each allocated batch b draws
\* clamp(c - b * batchSize, 0, batchSize) instances, c being the argument of the
\* most recent setInstanceCount (0 if there was none), batches allocated by a
\* later growth included.
C27_CountsFollowInstanceCount ==
    \A b \in AllBatches :
        meshGroups[b + 1].count = Clamp(currentInstanceCount - b * batchSize, 0, batchSize)

\* C28: in every reachable state, also after batchSize changed between renders,
\* each batch's buffer has exactly its physical capacity (a write that is applied
\* lands below it) and each batch draws at most its physical capacity.
C28_WithinPhysicalCapacity ==
    \A b \in AllBatches :
        LET mesh == meshGroups[b + 1] IN
        /\ Len(mesh.instanceMatrix) = mesh.capacity
        /\ mesh.instanceColor # NoColor => Len(mesh.instanceColor) = mesh.capacity
        /\ mesh.count <= mesh.capacity

\* the colour write of this step, element j of it routed to an allocated batch:
\* with a colour buffer the batch is colour-dirty and holds the colour (if it has
\* the slot); without one the batch is as it was and is not added to the set
ColorWriteTookEffectWhereBuffered ==
    \A j \in 1..Len(lastOp'.values) :
        LET g == GroupIndex(lastOp'.index + j - 1)
            o == InstanceIndex(lastOp'.index + j - 1)
        IN  HasMesh(meshGroups, g)
            => IF meshGroups[g + 1].instanceColor # NoColor
               THEN /\ g \in dirtyColorBatches'
                    /\ o \in 0..(meshGroups[g + 1].capacity - 1)
                       => meshGroups'[g + 1].instanceColor[o + 1] = lastOp'.values[j]
               ELSE /\ meshGroups'[g + 1] = meshGroups[g + 1]
                    /\ g \in dirtyColorBatches' => g \in dirtyColorBatches

\* C29: a batch has a colour buffer exactly if the render that allocated it had
\* enableColors = true: no step adds a buffer to, or removes it from, a batch that
\* stays allocated, whatever enableColors becomes; and setColorAt / setColors
\* store the colour and mark the batch colour-dirty exactly on the batches that
\* have the buffer.
C29_ColorBufferFixedAtAllocation ==
    [][/\ opCount = 0
          => \A g \in 1..Len(meshGroups) :
                 (meshGroups[g].instanceColor # NoColor) <=> enableColors
       /\ \A g \in 1..Min(Len(meshGroups), Len(meshGroups')) :
              (meshGroups'[g].instanceColor # NoColor) <=> (meshGroups[g].instanceColor # NoColor)
       /\ \A g \in (Len(meshGroups) + 1)..Len(meshGroups') :
              (meshGroups'[g].instanceColor # NoColor) <=> enableColors'
       /\ (lastOp'.op \in ColorWrites /\ opCount' = opCount + 1)
          => ColorWriteTookEffectWhereBuffered]_vars

\* C29 witness: batch 0 was allocated without colours, batch 1 with colours; a
\* setColors over both, enableColors being true, stored and marked on batch 1 only.
C29_Witness ==
    /\ lastOp.op = "setColors"
    /\ lastOp.index = 0
    /\ Len(lastOp.values) = 2
    /\ enableColors
    /\ batchSize = 1
    /\ Len(meshGroups) = 2
    /\ meshGroups[1].instanceColor = NoColor
    /\ meshGroups[2].instanceColor = <<lastOp.values[2]>>
    /\ dirtyColorBatches = {1}

\* the pool (batches and matrix dirty set) after setMatrixAt(s + i - 1, ms[i]) for
\* i = from..Len(ms), one call after the other
RECURSIVE SingleMatrixWrites(_, _, _, _)
SingleMatrixWrites(pool, ms, s, from) ==
    IF from > Len(ms) THEN pool
    ELSE SingleMatrixWrites(
             [groups |-> StoreMatrix(pool.groups, s + from - 1, ms[from]),
              dirty |-> pool.dirty \cup AffectedMatrixBatches(pool.groups, 1, s + from - 1)],
             ms, s, from + 1)

\* the pool (batches and colour dirty set) after setColorAt(s + i - 1, cs[i]) for
\* i = from..Len(cs), one call after the other
RECURSIVE SingleColorWrites(_, _, _, _)
SingleColorWrites(pool, cs, s, from) ==
    IF from > Len(cs) THEN pool
    ELSE SingleColorWrites(
             [groups |-> StoreColor(pool.groups, s + from - 1, cs[from]),
              dirty |-> pool.dirty \cup AffectedColorBatches(pool.groups, 1, s + from - 1)],
             cs, s, from + 1)

\* C30: setMatrices(ms, s) leaves the batches and the dirty sets as the calls
\* setMatrixAt(s + i, ms[i]), i = 0..len-1 in order, would leave them, ranges that
\* are partly or wholly out of range included; likewise setColors and setColorAt.
C30_BulkEqualsSingles ==
    [][/\ (lastOp'.op = "setMatrices" /\ opCount' = opCount + 1)
          => LET singles == SingleMatrixWrites(
                                [groups |-> meshGroups, dirty |-> dirtyMatrixBatches],
                                lastOp'.values, lastOp'.index, 1)
             IN  /\ meshGroups' = singles.groups
                 /\ dirtyMatrixBatches' = singles.dirty
                 /\ dirtyColorBatches' = dirtyColorBatches
       /\ (lastOp'.op = "setColors" /\ opCount' = opCount + 1)
          => LET singles == SingleColorWrites(
                                [groups |-> meshGroups, dirty |-> dirtyColorBatches],
                                lastOp'.values, lastOp'.index, 1)
             IN  /\ meshGroups' = singles.groups
                 /\ dirtyColorBatches' = singles.dirty
                 /\ dirtyMatrixBatches' = dirtyMatrixBatches]_vars

\* C30 witness: a setMatrices of two transforms from index -1 on: the first is out
\* of range, the second is stored in slot 0 and batch 0 is matrix-dirty.
C30_Witness ==
    /\ lastOp.op = "setMatrices"
    /\ lastOp.index = 0 - 1
    /\ Len(lastOp.values) = 2
    /\ Len(meshGroups) >= 1
    /\ meshGroups[1].instanceMatrix[1] = lastOp.values[2]
    /\ dirtyMatrixBatches = {0}
====
